---- MODULE Spec2Model ----
(***************************************************************************)
(* Model of obstacle_avoidance_real.py: the PIDController class and the    *)
(* RobotController node (scan callback, timer callback).                   *)
(*                                                                         *)
(* Numbers.  Python floats are IEEE 754 binary64 numbers and the samples   *)
(* of a scan binary32 numbers (msg.ranges is an array of float32); sums,   *)
(* means and the PID law are computed with the rounding of each operation  *)
(* of the code.  np.mean of a float32 slice is numpy's pairwise sum in     *)
(* binary32, divided by the count in binary64 and rounded to binary32.     *)
(* An operation on a numpy.float32 and a Python number is done in binary64 *)
(* (the promotion rule of numpy 1.x, the numpy of the ROS 2 releases).     *)
(* A value that may be None is a record [some |-> BOOLEAN, val |-> ...].   *)
(***************************************************************************)
EXTENDS Integers, Sequences, FiniteSets, TLC

VARIABLES
    (* ---- RobotController node ---- *)
    ranges,          \* msg.ranges of the last message delivered on /scan, as delivered
    laserscan,       \* self.laserscan: None or the array of ranges
    data_available,  \* self.data_available
    ctrl_msg,        \* self.ctrl_msg (Twist): linear.x, angular.z
    pid_lat,         \* self.pid_lat
    pid_lon,         \* self.pid_lon
    clock,           \* last value read of get_clock().now() - start_time (s)
    pc,              \* position of the executor: idle, inside the scan callback, crashed
    sink,            \* messages published on /cmd_vel, in order
    cycle,           \* what the last timer callback did (record, see NoCycle)
    (* ---- a PIDController on its own (specification SpecPID) ---- *)
    pid,             \* the controller
    call,            \* the last call of control: inputs, output
    constRun,        \* number of latest successive accepted calls fed the same error
    recent           \* the latest accepted errors, oldest first (at most kS of them)

vars == <<ranges, laserscan, data_available, ctrl_msg, pid_lat, pid_lon, clock, pc,
          sink, cycle, pid, call, constRun, recent>>

nodeVars == <<ranges, laserscan, data_available, ctrl_msg, pid_lat, pid_lon, clock, pc,
              sink, cycle>>

pidVars == <<pid, call, constRun, recent>>

(***************************************************************************)
(* Floating-point arithmetic.  A float is <<s, m, e>> and stands for       *)
(* s * m * 2^e: s is the sign (1, -1, or 0 for zero), m an odd natural     *)
(* number and e an integer, so that equal numbers are equal tuples.  m is  *)
(* a sequence of digits in base 2^14, least significant first, without     *)
(* leading zero digits (a mantissa of 53 bits does not fit in an integer   *)
(* of 32 bits).  Every operation computes the exact result and then        *)
(* rounds it to the nearest number with a mantissa of p bits, ties to      *)
(* even, as IEEE 754 prescribes for binary64 (p = 53, a Python float) and  *)
(* binary32 (p = 24, a sample of the scan).  The exponent is not bounded:  *)
(* no computation of the program comes near the overflow or underflow      *)
(* threshold.  Zero has no sign: the program never tells -0.0 from 0.0.    *)
(* NaN, the mean numpy gives for an empty slice, is <<2, <<>>, 0>>.        *)
(***************************************************************************)
LimbBits == 14

Base == 2 ^ LimbBits

Limb(a, i) == IF i <= Len(a) THEN a[i] ELSE 0

RECURSIVE NStrip(_)
NStrip(a) ==
    IF a = <<>> THEN <<>>
    ELSE IF a[Len(a)] = 0 THEN NStrip(SubSeq(a, 1, Len(a) - 1))
    ELSE a

RECURSIVE NFromInt(_)
NFromInt(n) == IF n = 0 THEN <<>> ELSE <<n % Base>> \o NFromInt(n \div Base)

RECURSIVE NAddFrom(_, _, _, _)
NAddFrom(a, b, i, c) ==
    IF i > Len(a) /\ i > Len(b)
    THEN IF c = 0 THEN <<>> ELSE <<c>>
    ELSE <<(Limb(a, i) + Limb(b, i) + c) % Base>>
         \o NAddFrom(a, b, i + 1, (Limb(a, i) + Limb(b, i) + c) \div Base)

NAdd(a, b) == NAddFrom(a, b, 1, 0)

\* a - b for a >= b.
RECURSIVE NSubFrom(_, _, _, _)
NSubFrom(a, b, i, c) ==
    IF i > Len(a) THEN <<>>
    ELSE IF a[i] - Limb(b, i) - c < 0
    THEN <<a[i] - Limb(b, i) - c + Base>> \o NSubFrom(a, b, i + 1, 1)
    ELSE <<a[i] - Limb(b, i) - c>> \o NSubFrom(a, b, i + 1, 0)

NSub(a, b) == NStrip(NSubFrom(a, b, 1, 0))

\* -1, 0, 1 as a < b, a = b, a > b.
RECURSIVE NCmpFrom(_, _, _)
NCmpFrom(a, b, i) ==
    IF i = 0 THEN 0
    ELSE IF a[i] < b[i] THEN -1
    ELSE IF a[i] > b[i] THEN 1
    ELSE NCmpFrom(a, b, i - 1)

NCmp(a, b) ==
    IF Len(a) < Len(b) THEN -1
    ELSE IF Len(a) > Len(b) THEN 1
    ELSE NCmpFrom(a, b, Len(a))

\* a * k for one digit k.
RECURSIVE NMulDigitFrom(_, _, _, _)
NMulDigitFrom(a, k, i, c) ==
    IF i > Len(a)
    THEN IF c = 0 THEN <<>> ELSE <<c>>
    ELSE <<(a[i] * k + c) % Base>> \o NMulDigitFrom(a, k, i + 1, (a[i] * k + c) \div Base)

NMulDigit(a, k) == IF k = 0 THEN <<>> ELSE NMulDigitFrom(a, k, 1, 0)

\* a * Base.
NUp(a) == IF a = <<>> THEN <<>> ELSE <<0>> \o a

RECURSIVE NMulFrom(_, _, _)
NMulFrom(a, b, j) ==
    IF j > Len(b) THEN <<>>
    ELSE NAdd(NMulDigit(a, b[j]), NUp(NMulFrom(a, b, j + 1)))

NMul(a, b) == NMulFrom(a, b, 1)

\* a * 2^k and floor(a / 2^k).
RECURSIVE NUpBy(_, _)
NUpBy(a, q) == IF q = 0 THEN a ELSE NUpBy(NUp(a), q - 1)

NShl(a, k) == NUpBy(NMulDigit(a, 2 ^ (k % LimbBits)), k \div LimbBits)

NShrBits(a, r) ==
    NStrip([i \in 1..Len(a) |->
               (a[i] \div 2 ^ r) + (Limb(a, i + 1) % 2 ^ r) * 2 ^ (LimbBits - r)])

NShr(a, k) ==
    IF k \div LimbBits >= Len(a) THEN <<>>
    ELSE NShrBits(SubSeq(a, k \div LimbBits + 1, Len(a)), k % LimbBits)

\* Number of bits of a, and number of zero bits at its low end (a # 0).
RECURSIVE BitLen(_)
BitLen(n) == IF n = 0 THEN 0 ELSE 1 + BitLen(n \div 2)

NBitLen(a) == IF a = <<>> THEN 0 ELSE LimbBits * (Len(a) - 1) + BitLen(a[Len(a)])

RECURSIVE LowZeros(_)
LowZeros(n) == IF n % 2 = 1 THEN 0 ELSE 1 + LowZeros(n \div 2)

RECURSIVE NLowZerosFrom(_, _)
NLowZerosFrom(a, i) ==
    IF a[i] = 0 THEN LimbBits + NLowZerosFrom(a, i + 1) ELSE LowZeros(a[i])

NLowZeros(a) == NLowZerosFrom(a, 1)

NOdd(a) == a # <<>> /\ a[1] % 2 = 1

\* The largest digit d with d * b <= r, looked for downwards from d.
RECURSIVE DigitFrom(_, _, _)
DigitFrom(b, r, d) ==
    IF NCmp(NMulDigit(b, d), r) <= 0 THEN d ELSE DigitFrom(b, r, d - 1)

\* floor(r / b) for r < b * Base, the top digit of b being at least Base / 2:
\* the two top digits of r divided by the top digit of b give the digit or a
\* little more.
Digit(b, r) ==
    IF Len(r) < Len(b) THEN 0
    ELSE IF (Limb(r, Len(b) + 1) * Base + r[Len(b)]) \div b[Len(b)] >= Base
    THEN DigitFrom(b, r, Base - 1)
    ELSE DigitFrom(b, r, (Limb(r, Len(b) + 1) * Base + r[Len(b)]) \div b[Len(b)])

\* One step of the long division: digit i of a is brought down to the
\* remainder r, the next digit of the quotient q is found.  st = <<i, q, r>>.
NDivDown(a, st) == NStrip(<<a[st[1]]>> \o st[3])

NDivStep(b, i, q, r, d) == <<i, NStrip(<<d>> \o q), NSub(r, NMulDigit(b, d))>>

RECURSIVE NDivFrom(_, _, _)
NDivFrom(a, b, st) ==
    IF st[1] = 0 THEN <<st[2], st[3] # <<>> >>
    ELSE NDivFrom(a, b, NDivStep(b, st[1] - 1, st[2], NDivDown(a, st),
                                 Digit(b, NDivDown(a, st))))

\* floor(a / b) and whether the division leaves a remainder (b # 0).  Both
\* numbers are first multiplied by the power of two that brings the top
\* digit of b to Base / 2 or more.
NormShift(b) == LimbBits - BitLen(b[Len(b)])

NDiv(a, b) ==
    NDivFrom(NShl(a, NormShift(b)), NShl(b, NormShift(b)),
             <<Len(NShl(a, NormShift(b))), <<>>, <<>> >>)

Zero == <<0, <<>>, 0>>

NaN == <<2, <<>>, 0>>

IsNaN(x) == x[1] = 2

\* s * n * 2^e for a natural number n # 0, n odd or not.
Canon(s, n, e) == <<s, NShr(n, NLowZeros(n)), e + NLowZeros(n)>>

\* Bit i of a, the lowest being bit 0.
NBit(a, i) == (Limb(a, i \div LimbBits + 1) \div 2 ^ (i % LimbBits)) % 2

\* Rounding to nearest, ties to even: whether n # 0, cut by its k > 0 low
\* bits, is rounded up: the bits cut are more than a half, or they are a half
\* and the lowest bit kept is 1.
RoundUp(n, k) ==
    /\ NBit(n, k - 1) = 1
    /\ (NLowZeros(n) < k - 1 \/ NBit(n, k) = 1)

\* n # 0 without its k low bits, rounded (k <= 0: n itself).
Cut(n, k) ==
    IF k <= 0 THEN n
    ELSE IF RoundUp(n, k) THEN NAdd(NShr(n, k), <<1>>)
    ELSE NShr(n, k)

RoundTo(s, n, e, k) == Canon(s, Cut(n, k), IF k <= 0 THEN e ELSE e + k)

\* s * n * 2^e rounded to p bits.
FRound(p, s, n, e) ==
    IF n = <<>> THEN Zero ELSE RoundTo(s, n, e, NBitLen(n) - p)

\* The float of an integer of at most 31 bits.
FromInt(i) ==
    IF i = 0 THEN Zero
    ELSE Canon(IF i < 0 THEN -1 ELSE 1, NFromInt(IF i < 0 THEN -i ELSE i), 0)

FNeg(x) == IF IsNaN(x) THEN NaN ELSE <<-x[1], x[2], x[3]>>

FAbs(x) == IF IsNaN(x) THEN NaN ELSE <<x[1] * x[1], x[2], x[3]>>

\* The mantissa of x over the smaller of the exponents of x and y.
Aligned(x, y) == NShl(x[2], IF x[3] > y[3] THEN x[3] - y[3] ELSE 0)

MinExp(x, y) == IF x[3] < y[3] THEN x[3] ELSE y[3]

\* -1, 0, 1 as x < y, x = y, x > y (neither is NaN).
FCmp(x, y) ==
    IF x[1] # y[1] THEN (IF x[1] < y[1] THEN -1 ELSE 1)
    ELSE IF x[1] = 0 THEN 0
    ELSE x[1] * NCmp(Aligned(x, y), Aligned(y, x))

\* The sum of sx * mx and sy * my (neither is 0): sign and magnitude, c
\* comparing mx with my.
SumOf(sx, mx, sy, my, c) ==
    IF sx = sy THEN <<sx, NAdd(mx, my)>>
    ELSE IF c >= 0 THEN <<sx, NSub(mx, my)>>
    ELSE <<sy, NSub(my, mx)>>

AddAligned(p, sx, mx, sy, my, e) ==
    LET sum == SumOf(sx, mx, sy, my, NCmp(mx, my))
    IN  FRound(p, sum[1], sum[2], e)

FAdd(p, x, y) ==
    IF IsNaN(x) \/ IsNaN(y) THEN NaN
    ELSE IF x[1] = 0 THEN y
    ELSE IF y[1] = 0 THEN x
    ELSE AddAligned(p, x[1], Aligned(x, y), y[1], Aligned(y, x), MinExp(x, y))

FMul(p, x, y) ==
    IF IsNaN(x) \/ IsNaN(y) THEN NaN
    ELSE IF x[1] = 0 \/ y[1] = 0 THEN Zero
    ELSE FRound(p, x[1] * y[1], NMul(x[2], y[2]), x[3] + y[3])

\* x / y for y # 0: the quotient of the mantissas is computed to p + 2 bits
\* or more, and one more bit tells whether it is exact.
DivShift(p, x, y) ==
    IF p + 2 + NBitLen(y[2]) > NBitLen(x[2])
    THEN p + 2 + NBitLen(y[2]) - NBitLen(x[2]) ELSE 0

Sticky(qr) == NAdd(NShl(qr[1], 1), IF qr[2] THEN <<1>> ELSE <<>>)

FDiv(p, x, y) ==
    IF IsNaN(x) \/ IsNaN(y) THEN NaN
    ELSE IF x[1] = 0 THEN Zero
    ELSE IF y[2] = <<1>> THEN <<x[1] * y[1], x[2], x[3] - y[3]>>
    ELSE FRound(p, x[1] * y[1],
                Sticky(NDiv(NShl(x[2], DivShift(p, x, y)), y[2])),
                x[3] - y[3] - DivShift(p, x, y) - 1)

\* Mantissa bits of binary64 (a Python float, a numpy.float64) and of
\* binary32 (a numpy.float32, the type of the samples of msg.ranges).
Double == 53

Single == 24

\* The Python float written n/d in decimal notation (0.22 is Q(22, 100)):
\* the binary64 number nearest to n/d.
Q(n, d) == FDiv(Double, FromInt(n), FromInt(d))

\* Arithmetic and comparisons of Python floats.  A comparison with NaN is
\* false.
RAdd(a, b) == FAdd(Double, a, b)

RNeg(a) == FNeg(a)

RSub(a, b) == FAdd(Double, a, FNeg(b))

RMul(a, b) == FMul(Double, a, b)

RDiv(a, b) == FDiv(Double, a, b)

RLt(a, b) == ~ IsNaN(a) /\ ~ IsNaN(b) /\ FCmp(a, b) < 0

RLe(a, b) == ~ IsNaN(a) /\ ~ IsNaN(b) /\ FCmp(a, b) <= 0

RGt(a, b) == RLt(b, a)

RGe(a, b) == RLe(b, a)

RAbs(a) == FAbs(a)

\* Arithmetic of numpy.float32 scalars, and the conversion to float32.
SSub(a, b) == FAdd(Single, a, FNeg(b))

SAdd(a, b) == FAdd(Single, a, b)

ToSingle(x) == IF IsNaN(x) THEN NaN ELSE FRound(Single, x[1], x[2], x[3])

\* Python's None, and a present value.
None == [some |-> FALSE, val |-> Zero]

Some(v) == [some |-> TRUE, val |-> v]

(***************************************************************************)
(* class PIDController                                                     *)
(***************************************************************************)

\* An error passed to control is a numpy.float32 (left - right) or a 64-bit
\* float (a Python float, a numpy.float64): w, the number of mantissa bits,
\* tells which.  prev_w is the type of err_prev (the 0 of __init__ is
\* converted as a 64-bit number).
\* PIDController.__init__(kP, kI, kD, kS); err_hist = queue.Queue(kS).
PIDInit(kP, kI, kD, kS) ==
    [kP |-> kP, kI |-> kI, kD |-> kD, kS |-> kS,
     err_int |-> Zero, err_dif |-> Zero, err_prev |-> Zero, prev_w |-> Double,
     err_hist |-> <<>>, t_prev |-> Zero]

\* queue.Queue.full(): 0 < maxsize <= qsize.
QueueFull(hist, maxsize) == 0 < maxsize /\ maxsize <= Len(hist)

\* The test of line 66: dt > 0.0.
Advancing(p, t) == RGt(RSub(t, p.t_prev), Zero)

\* Line 71, err - self.err_prev: numpy subtracts two numpy.float32 numbers in
\* binary32, any other pair in binary64.
ErrDif(err, w, prev, prev_w) ==
    IF w = Single /\ prev_w = Single THEN SSub(err, prev) ELSE RSub(err, prev)

\* Variant of lines 67-75 in which line 69 takes an error out only once the
\* queue holds more than kS of them.
Accept_PopWhenOver(p, err, w, t) ==
    LET dt    == RSub(t, p.t_prev)
        hist1 == Append(p.err_hist, err)
        int1  == RAdd(p.err_int, err)
        over  == Len(hist1) > p.kS
        hist2 == IF over THEN Tail(hist1) ELSE hist1
        int2  == IF over THEN RSub(int1, Head(hist1)) ELSE int1
        dif   == ErrDif(err, w, p.err_prev, p.prev_w)
        u     == RAdd(RAdd(RMul(p.kP, err),
                           RMul(RMul(p.kI, int2), dt)),
                      RDiv(RMul(p.kD, dif), dt))
    IN  [pid |-> [p EXCEPT !.err_hist = hist2, !.err_int = int2,
                           !.err_dif = dif, !.err_prev = err,
                           !.prev_w = w, !.t_prev = t],
         u |-> Some(u), blocked |-> FALSE]

\* Lines 67-75, the body of "if dt > 0.0": the controller afterwards and the
\* returned value u.
Accept(p, err, w, t) ==
    LET dt    == RSub(t, p.t_prev)
        hist1 == Append(p.err_hist, err)
        int1  == RAdd(p.err_int, err)
        full  == QueueFull(hist1, p.kS)
        hist2 == IF full THEN Tail(hist1) ELSE hist1
        int2  == IF full THEN RSub(int1, Head(hist1)) ELSE int1
        dif   == ErrDif(err, w, p.err_prev, p.prev_w)
        u     == RAdd(RAdd(RMul(p.kP, err),
                           RMul(RMul(p.kI, int2), dt)),
                      RDiv(RMul(p.kD, dif), dt))
    IN  [pid |-> [p EXCEPT !.err_hist = hist2, !.err_int = int2,
                           !.err_dif = dif, !.err_prev = err,
                           !.prev_w = w, !.t_prev = t],
         u |-> Some(u), blocked |-> FALSE]

\* Variant of control in which line 66 tests "dt != 0.0".
Control_AnyDt(p, err, w, t) ==
    IF RSub(t, p.t_prev) = Zero
    THEN [pid |-> p, u |-> None, blocked |-> FALSE]
    ELSE IF QueueFull(p.err_hist, p.kS)
    THEN [pid |-> p, u |-> None, blocked |-> TRUE]
    ELSE Accept(p, err, w, t)

\* Variant of control in which lines 73-74 (previous error, previous
\* timestamp) are executed outside the "if dt > 0.0".
Control_StampOnNoOp(p, err, w, t) ==
    IF ~ RGt(RSub(t, p.t_prev), Zero)
    THEN [pid |-> [p EXCEPT !.err_prev = err, !.prev_w = w, !.t_prev = t],
          u |-> None, blocked |-> FALSE]
    ELSE IF QueueFull(p.err_hist, p.kS)
    THEN [pid |-> p, u |-> None, blocked |-> TRUE]
    ELSE Accept(p, err, w, t)

\* PIDController.control(err, t), err being of type w.  Result: the controller afterwards, the
\* returned value u (None when the body of "if dt > 0.0" is skipped) and
\* whether put() found the bounded queue full, in which case it blocks for
\* ever (no other thread ever takes from the queue).
Control(p, err, w, t) ==
    IF ~ RGt(RSub(t, p.t_prev), Zero)
    THEN [pid |-> p, u |-> None, blocked |-> FALSE]
    ELSE IF QueueFull(p.err_hist, p.kS)
    THEN [pid |-> p, u |-> None, blocked |-> TRUE]
    ELSE Accept(p, err, w, t)

\* self.pid_lat = PIDController(0.22, 0.01, 0.3, 10)
LatPID == PIDInit(Q(22, 100), Q(1, 100), Q(3, 10), 10)

\* self.pid_lon = PIDController(0.11, 0.001, 0.01, 10)
LonPID == PIDInit(Q(11, 100), Q(1, 1000), Q(1, 100), 10)

(***************************************************************************)
(* class RobotController: the scan.  msg.ranges is an array of binary32    *)
(* numbers.  A sample of the model is an integer number of tenths of a     *)
(* metre and stands for the binary32 number nearest to it: Metres.         *)
(***************************************************************************)
\* Number of samples of a scan (one per degree; the slices of lines 122-130
\* count from 360).
ScanLen == 360

\* Maximum range, 3.5 m, in tenths of a metre.
MaxRangeDm == 35

\* Raw scans delivered on /scan: a scan holds vFL on [0,30), vL on [30,180),
\* vR on [180,330), vFR on [330,360).
ScanOf(vFL, vL, vR, vFR) ==
    [i \in 1..ScanLen |->
        IF i - 1 < 30 THEN vFL
        ELSE IF i - 1 < 180 THEN vL
        ELSE IF i - 1 < 330 THEN vR
        ELSE vFR]

RawScans ==
    { ScanOf(50, 50, 50, 50),    \* everything beyond the maximum range
      ScanOf(35, 50, 50, 35),    \* at and beyond the maximum range
      ScanOf(0, 0, 20, 20),      \* obstacle against the left side
      ScanOf(20, 20, 0, 0),      \* obstacle against the right side
      ScanOf(5, 5, 20, 20),      \* oblique left exactly 0.5 m
      ScanOf(5, 10, 20, 5),      \* oblique left between 0.5 m and 1 m
      ScanOf(35, 20, 5, 10) }    \* oblique right between 0.5 m and 1 m, far front

\* The other messages a sensor_msgs/LaserScan can carry (specification
\* SpecField).  Number of samples of the scan of a lidar with more beams.
LongScanLen == 400

\* A scan reading v tenths of a metre in every direction.
UniformScan(v) == ScanOf(v, v, v, v)

UniformDm == {7, 20, MaxRangeDm}

\* Number of samples of the scan of a lidar with fewer beams.
ShortScanLen == 180

FieldScans ==
    { UniformScan(v) : v \in UniformDm } \cup
    { ScanOf(-10, 20, 20, 20),               \* negative samples ahead on the left
      [i \in 1..LongScanLen |-> 20],         \* 2 m all around, too many samples
      [i \in 1..ShortScanLen |-> 20],        \* 2 m all around, too few samples
      << >>,                                 \* no sample at all
      ScanOf(20, 8, 35, 20),                 \* left - right = -2.7 and 0.1: their
      ScanOf(7, 9, 8, 6) }                   \* difference is not a binary32 number

\* The scans delivered in the specifications Spec and SpecField.
DeliveredScans == RawScans \cup FieldScans

\* The binary32 number nearest to s tenths of a metre; computed once for the
\* samples of the delivered scans.
MetresTable ==
    [s \in UNION {{scan[i] : i \in DOMAIN scan} : scan \in DeliveredScans} |->
        FDiv(Single, FromInt(s), FromInt(10))]

Metres(s) ==
    IF s \in DOMAIN MetresTable THEN MetresTable[s]
    ELSE FDiv(Single, FromInt(s), FromInt(10))

\* self.laserscan[self.laserscan >= 3.5] = 3.5
ClampScan(scan) ==
    [i \in 1..Len(scan) |->
        IF scan[i] >= MaxRangeDm THEN MaxRangeDm ELSE scan[i]]

\* np.array(msg.ranges): the binary32 numbers of the samples.
Readings(scan) == [i \in 1..Len(scan) |-> Metres(scan[i])]

\* Number of elements of x[a:b] (Python slice: indices a..b-1, cut to the
\* array).
SliceLen(x, a, b) ==
    LET hi == IF b < Len(x) THEN b ELSE Len(x)
    IN  IF hi > a THEN hi - a ELSE 0

\* numpy's sum of a binary32 array x (pairwise summation), indices counted
\* from 0: res += x[i] for i in lo..hi-1.
RECURSIVE SeqSum(_, _, _, _)
SeqSum(x, lo, hi, res) ==
    IF lo >= hi THEN res
    ELSE SeqSum(x, lo + 1, hi, SAdd(res, x[lo + 1]))

\* One of the eight accumulators of the unrolled loop: r += x[i] for
\* i, i + 8, ... below end.
RECURSIVE Lane(_, _, _, _)
Lane(x, i, end, r) ==
    IF i >= end THEN r
    ELSE Lane(x, i + 8, end, SAdd(r, x[i + 1]))

\* The eight accumulators r[0] .. r[7] added two by two.
Combined(r) ==
    SAdd(SAdd(SAdd(r[0], r[1]), SAdd(r[2], r[3])),
         SAdd(SAdd(r[4], r[5]), SAdd(r[6], r[7])))

\* The sum of the n - n % 8 first elements from index a.
Unrolled(x, a, n) ==
    Combined([j \in 0..7 |-> Lane(x, a + 8 + j, a + n - (n % 8), x[a + j + 1])])

\* Largest block that is summed without being split.
PairwiseBlock == 128

\* The sum of the n elements from index a.
RECURSIVE PairwiseSum(_, _, _)
PairwiseSum(x, a, n) ==
    IF n < 8 THEN SeqSum(x, a, a + n, Zero)
    ELSE IF n <= PairwiseBlock
    THEN SeqSum(x, a + n - (n % 8), a + n, Unrolled(x, a, n))
    ELSE LET n2 == (n \div 2) - ((n \div 2) % 8)
         IN  SAdd(PairwiseSum(x, a, n2), PairwiseSum(x, a + n2, n - n2))

\* The binary32 sum of the n elements from index a divided by n, as a
\* binary32 number.
MeanOf(x, a, n) == ToSingle(RDiv(PairwiseSum(x, a, n), FromInt(n)))

\* np.mean(x[a:b]); of an empty slice, nan.
Mean(x, a, b) ==
    IF SliceLen(x, a, b) = 0 THEN NaN ELSE MeanOf(x, a, SliceLen(x, a, b))

\* Lines 121-130: the five sector clearances of the array x.
SectorMeans(x) ==
    [front         |-> RAdd(Mean(x, 0, 20),
                            RDiv(Mean(x, 360 - 20, 360), Q(2, 1))),
     oblique_left  |-> Mean(x, 0, 70),
     oblique_right |-> Mean(x, 360 - 70, 360),
     left          |-> Mean(x, 30, 30 + 55),
     right         |-> Mean(x, 330 - 55, 330)]

\* The sector clearances of a scan of the model.
Sectors(scan) == SectorMeans(Readings(scan))

\* Variant of the control logic in which line 133 tests "and" instead of "or".
Tier_And(snap) ==
    IF RLt(snap.oblique_left, Q(5, 10)) /\ RLt(snap.oblique_right, Q(5, 10))
    THEN "collision"
    ELSE IF \/ RGt(snap.oblique_left, Q(5, 10)) /\ RLt(snap.oblique_left, Q(1, 1))
            \/ RGt(snap.oblique_right, Q(5, 10)) /\ RLt(snap.oblique_right, Q(1, 1))
    THEN "caution"
    ELSE "clear"

\* Variant of the control logic in which line 136 has no upper limit of 1 m.
Tier_NoUpper(snap) ==
    IF RLt(snap.oblique_left, Q(5, 10)) \/ RLt(snap.oblique_right, Q(5, 10))
    THEN "collision"
    ELSE IF RGt(snap.oblique_left, Q(5, 10)) \/ RGt(snap.oblique_right, Q(5, 10))
    THEN "caution"
    ELSE "clear"

\* Lines 133, 136, 139: the branch of the control logic.
Tier(snap) ==
    IF RLt(snap.oblique_left, Q(5, 10)) \/ RLt(snap.oblique_right, Q(5, 10))
    THEN "collision"
    ELSE IF \/ RGt(snap.oblique_left, Q(5, 10)) /\ RLt(snap.oblique_left, Q(1, 1))
            \/ RGt(snap.oblique_right, Q(5, 10)) /\ RLt(snap.oblique_right, Q(1, 1))
    THEN "caution"
    ELSE "clear"

\* Variant of lines 142-143 that takes max instead of min.
PyMin_Max(a, b) == IF RGt(b, a) THEN b ELSE a

\* Python's min(a, b) of two numbers: b if b < a, else a.
PyMin(a, b) == IF RLt(b, a) THEN b ELSE a

\* DELAY = 4.0 (seconds).
DELAY == 4

\* Variant of line 118 that tests >= instead of >.
DelayElapsed_Ge(now) == now >= DELAY

\* Line 118: self.get_clock().now() - self.start_time > Duration(seconds=DELAY),
\* for now seconds elapsed since start_time.
DelayElapsed(now) == now > DELAY

(***************************************************************************)
(* Specification Spec: the node under rclpy.spin.                          *)
(***************************************************************************)

\* Readings of the node clock, in whole seconds since start_time.  The clock
\* is only compared with DELAY, so one reading beyond DELAY stands for every
\* later time.
Clocks == 0..(DELAY + 1)

\* Largest value of time.time() in a control cycle, in tenths of a second.
MaxT == 2

Stamps == {Q(k, 10) : k \in 0..MaxT}

NoSnap == [front |-> Zero, oblique_left |-> Zero, oblique_right |-> Zero,
           left |-> Zero, right |-> Zero]

\* The record of a timer callback that did not reach the control logic.
NoCycle(kind, report) ==
    [kind |-> kind, report |-> report, scan |-> <<>>, snap |-> NoSnap,
     tstamp |-> Zero, lat_err |-> None, lon_err |-> None,
     LIN_VEL |-> None, ANG_VEL |-> None, published |-> FALSE, raised |-> FALSE]

\* Variant of the executor that starts a callback while the scan callback is
\* still running (callbacks on several threads).
ExecutorIdle_Reentrant == pc \in {"idle", "scan_clamp", "scan_flag"}

\* rclpy.spin(node) runs the callbacks of the node one at a time: a callback
\* starts only when no other callback is running (and the process is alive).
ExecutorIdle == pc = "idle"

\* No call of control yet.
NoCall == [n |-> 0, err |-> Zero, t |-> Zero, u |-> None, blocked |-> FALSE,
           noop |-> FALSE]

\* RobotController.__init__, lines 100-105.
NodeIdle ==
    /\ ranges = <<>>
    /\ laserscan = [some |-> FALSE, val |-> <<>>]
    /\ data_available = FALSE
    /\ ctrl_msg = [linear_x |-> Zero, angular_z |-> Zero]
    /\ pid_lat = LatPID
    /\ pid_lon = LonPID
    /\ clock = 0
    /\ pc = "idle"
    /\ sink = <<>>

Init ==
    /\ NodeIdle
    /\ cycle = NoCycle("none", "")
    /\ pid = LatPID
    /\ call = NoCall
    /\ constRun = 0
    /\ recent = <<>>

\* robot_laserscan_callback, line 112: capture the message.
ScanCapture ==
    /\ ExecutorIdle
    /\ \E raw \in RawScans :
         /\ ranges' = raw
         /\ laserscan' = Some(raw)
    /\ pc' = "scan_clamp"
    /\ UNCHANGED <<data_available, ctrl_msg, pid_lat, pid_lon, clock, sink, cycle>>
    /\ UNCHANGED pidVars

\* robot_laserscan_callback, line 113: clamp in place.
ScanClamp ==
    /\ pc = "scan_clamp"
    /\ laserscan' = Some(ClampScan(laserscan.val))
    /\ pc' = "scan_flag"
    /\ UNCHANGED <<ranges, data_available, ctrl_msg, pid_lat, pid_lon, clock, sink, cycle>>
    /\ UNCHANGED pidVars

\* robot_laserscan_callback, line 114: raise the flag, return.
ScanFlag ==
    /\ pc = "scan_flag"
    /\ data_available' = TRUE
    /\ pc' = "idle"
    /\ UNCHANGED <<ranges, laserscan, ctrl_msg, pid_lat, pid_lon, clock, sink, cycle>>
    /\ UNCHANGED pidVars

\* robot_controller_callback inside the startup delay: lines 118, 147-148.
TickInitializing ==
    /\ ExecutorIdle
    /\ \E now \in {c \in Clocks : c >= clock} :
         /\ ~ DelayElapsed(now)
         /\ clock' = now
    /\ cycle' = NoCycle("initializing", "Initializing...")
    /\ UNCHANGED <<ranges, laserscan, data_available, ctrl_msg, pid_lat, pid_lon, pc, sink>>
    /\ UNCHANGED pidVars

\* robot_controller_callback after the delay without data: lines 118-119.
TickNoData ==
    /\ ExecutorIdle
    /\ \E now \in {c \in Clocks : c >= clock} :
         /\ DelayElapsed(now)
         /\ clock' = now
    /\ ~ data_available
    /\ cycle' = NoCycle("nodata", "")
    /\ UNCHANGED <<ranges, laserscan, data_available, ctrl_msg, pid_lat, pid_lon, pc, sink>>
    /\ UNCHANGED pidVars

\* A call of control() that is not made: the controller is left alone.
NotCalled(p) == [pid |-> p, u |-> None, blocked |-> FALSE]

\* Lines 135 and 138: the lateral error of the tier, lr being left - right.
LatErr(tier, lr) == IF tier = "collision" THEN RMul(Q(16, 1), lr) ELSE lr

\* Its type: left - right is a numpy.float32, 16 times it a numpy.float64.
LatWidth(tier) == IF tier = "collision" THEN Double ELSE Single

\* Variant of lines 133-141 in which pid_lon.control(front, tstamp) is called in
\* every tier, its result being used in the Caution tier only.
LonStep_EveryTier(tier, snap, lon, tstamp) ==
    Control(lon, snap.front, Double, tstamp)

\* Line 137: pid_lon.control(front, tstamp), called in the Caution tier only.
LonStep(tier, snap, lon, tstamp) ==
    IF tier = "caution" THEN Control(lon, snap.front, Double, tstamp)
    ELSE NotCalled(lon)

\* Lines 135, 138, 141: pid_lat.control(laterr, tstamp), reached unless the
\* call of line 137 blocked.
LatStep(rlon, lat, laterr, w, tstamp) ==
    IF rlon.blocked THEN NotCalled(lat) ELSE Control(lat, laterr, w, tstamp)

\* Lines 134, 137, 140: LIN_VEL of the tier.
LinVel(tier, rlon) ==
    IF tier = "collision" THEN Some(Q(5, 1000))
    ELSE IF tier = "caution" THEN rlon.u
    ELSE Some(Q(2, 10))

\* Lines 142-143: the message after the two calls of min(); the second is
\* not reached when the first raises.
Capped(msg, LIN, ANG) ==
    IF ~ LIN.some THEN msg
    ELSE IF ~ ANG.some
    THEN [msg EXCEPT !.linear_x = PyMin(Q(22, 100), LIN.val)]
    ELSE [msg EXCEPT !.linear_x = PyMin(Q(22, 100), LIN.val),
                     !.angular_z = PyMin(Q(284, 100), ANG.val)]

\* Lines 142-145 after the calls of control(): min() raises TypeError on a
\* None operand (lines 142-143), then nothing is published; and the min() of
\* line 145, after the command is published, raises ValueError on a buffer
\* without a sample, then nothing is printed.
CycleEnd(blocked, LIN, ANG, scan) ==
    [published |-> ~ blocked /\ LIN.some /\ ANG.some,
     printed   |-> ~ blocked /\ LIN.some /\ ANG.some /\ Len(scan) > 0,
     raised    |-> ~ blocked /\ (~ LIN.some \/ ~ ANG.some \/ Len(scan) = 0)]

\* The outcome of a cycle whose calls of control() gave rlon and rlat and
\* that ends as end tells.
Concluded(scan, snap, msg, tstamp, tier, laterr, rlon, rlat, LIN, blocked, end) ==
    [lat |-> rlat.pid, lon |-> rlon.pid,
     msg |-> IF blocked THEN msg ELSE Capped(msg, LIN, rlat.u),
     blocked |-> blocked, raised |-> end.raised,
     published |-> end.published,
     rec |-> [kind |-> tier,
              report |-> IF end.printed THEN "Distance to closest obstacle"
                         ELSE "",
              scan |-> scan, snap |-> snap, tstamp |-> tstamp,
              lat_err |-> IF rlon.blocked THEN None ELSE Some(laterr),
              lon_err |-> IF tier = "caution" THEN Some(snap.front) ELSE None,
              LIN_VEL |-> LIN, ANG_VEL |-> rlat.u,
              published |-> end.published, raised |-> end.raised]]

\* The outcome of a cycle whose calls of control() gave rlon and rlat.
Outcome(scan, snap, msg, tstamp, tier, laterr, rlon, rlat, LIN) ==
    Concluded(scan, snap, msg, tstamp, tier, laterr, rlon, rlat, LIN,
              rlon.blocked \/ rlat.blocked,
              CycleEnd(rlon.blocked \/ rlat.blocked, LIN, rlat.u, scan))

\* Lines 133-145 once pid_lon.control has answered rlon.
Steer(scan, snap, lat, msg, tstamp, tier, laterr, rlon) ==
    Outcome(scan, snap, msg, tstamp, tier, laterr, rlon,
            LatStep(rlon, lat, laterr, LatWidth(tier), tstamp),
            LinVel(tier, rlon))

\* Lines 133-145 for the tier and the difference left - right.
Respond(scan, snap, lat, lon, msg, tstamp, tier, lr) ==
    Steer(scan, snap, lat, msg, tstamp, tier, LatErr(tier, lr),
          LonStep(tier, snap, lon, tstamp))

\* Lines 120-145 for the scan in the buffer and the timestamp tstamp: the
\* controllers, the message, whether it was published, whether an exception
\* was raised (an exception leaves rclpy.spin and ends the process).
ControlCycle(scan, snap, lat, lon, msg, tstamp) ==
    Respond(scan, snap, lat, lon, msg, tstamp,
            Tier(snap), SSub(snap.left, snap.right))

\* Sectors(scan), computed once for the delivered scans, as delivered and
\* after line 113.
SectorsTable ==
    [scan \in DeliveredScans \cup {ClampScan(raw) : raw \in DeliveredScans} |->
        Sectors(scan)]

Clearances(scan) == SectorsTable[scan]

\* robot_controller_callback after the delay with data: lines 118-145.
TickControl ==
    /\ ExecutorIdle
    /\ \E now \in {c \in Clocks : c >= clock} :
         /\ DelayElapsed(now)
         /\ clock' = now
    /\ data_available
    /\ \E snap \in {Clearances(laserscan.val)}, tstamp \in Stamps :
       \E r \in {ControlCycle(laserscan.val, snap, pid_lat, pid_lon, ctrl_msg, tstamp)} :
             /\ pid_lat' = r.lat
             /\ pid_lon' = r.lon
             /\ ctrl_msg' = r.msg
             /\ sink' = IF r.published THEN Append(sink, r.msg) ELSE sink
             /\ cycle' = r.rec
             /\ pc' = IF r.blocked THEN "blocked"
                      ELSE IF r.raised THEN "crashed"
                      ELSE pc
    /\ UNCHANGED <<ranges, laserscan, data_available>>
    /\ UNCHANGED pidVars

Next ==
    \/ ScanCapture
    \/ ScanClamp
    \/ ScanFlag
    \/ TickInitializing
    \/ TickNoData
    \/ TickControl

Spec == Init /\ [][Next]_vars

(***************************************************************************)
(* Specification SpecField: the same node fed the other messages a         *)
(* sensor_msgs/LaserScan can carry: a scan reading the same distance in    *)
(* every direction, a scan with a negative sample, and the scans of lidars *)
(* with more and with fewer than 360 beams.  robot_laserscan_callback      *)
(* takes whatever msg.ranges holds (line 112).                             *)
(***************************************************************************)

\* robot_laserscan_callback, line 112, on a message of FieldScans.
ScanCaptureField ==
    /\ ExecutorIdle
    /\ \E raw \in FieldScans :
         /\ ranges' = raw
         /\ laserscan' = Some(raw)
    /\ pc' = "scan_clamp"
    /\ UNCHANGED <<data_available, ctrl_msg, pid_lat, pid_lon, clock, sink, cycle>>
    /\ UNCHANGED pidVars

NextField ==
    \/ ScanCaptureField
    \/ ScanClamp
    \/ ScanFlag
    \/ TickInitializing
    \/ TickNoData
    \/ TickControl

SpecField == Init /\ [][NextField]_vars

(***************************************************************************)
(* Specification SpecPID: one PIDController driven by arbitrary calls.     *)
(***************************************************************************)

\* Largest timestamp (in tenths of a second) passed to a lone controller.
PidMaxT == 11

\* Largest window size of the additional small-window controllers.
MaxSmallKS == 3

\* Largest regression (tenths of a second) of a timestamp with respect to the
\* controller's previous timestamp; a timestamp that advances does so by
\* one tenth of a second.
PidMaxBack == 1

\* Timestamps passed to control.
PidStamp == [k \in 0..PidMaxT |-> Q(k, 10)]

PidTimes(p) ==
    {PidStamp[k] : k \in {k \in 0..PidMaxT :
        \E j \in 0..PidMaxT : /\ PidStamp[j] = p.t_prev
                               /\ k - j <= 1
                               /\ j - k <= PidMaxBack}}

\* Errors of 64 bits, and numpy.float32 errors whose difference is not a
\* binary32 number; the latter are passed to the controller of
\* window 1 only.
PidErrs == {Q(-32, 1), Q(3, 10)}

PidSingles == {ToSingle(Q(1, 10)), ToSingle(Q(-27, 10))}

PidInputs(p) ==
    {<<err, Double>> : err \in PidErrs} \cup
    (IF p.kS = 1 THEN {<<err, Single>> : err \in PidSingles} ELSE {})

\* The controllers constructed: the lateral one of the node, and the same
\* gains with small windows.
PidConfigs ==
    {LatPID} \cup
    {PIDInit(Q(22, 100), Q(1, 100), Q(3, 10), k) : k \in 1..MaxSmallKS}

InitPID ==
    /\ NodeIdle
    /\ cycle = NoCycle("none", "")
    /\ pid \in PidConfigs
    /\ call = NoCall
    /\ constRun = 0
    /\ recent = <<>>

\* One call pid.control(err, t).  call.n tells a first call (1) from a later
\* one (2); constRun counts the latest accepted calls that were fed the same
\* error as the one before.
PidControl ==
    /\ ~ call.blocked
    /\ \E inp \in PidInputs(pid), t \in PidTimes(pid) :
       \E r \in {Control(pid, inp[1], inp[2], t)} :
         LET accepted == r.u.some
             err      == inp[1]
         IN  /\ pid' = r.pid
             /\ call' = [n |-> IF call.n = 0 THEN 1 ELSE 2, err |-> err, t |-> t,
                         u |-> r.u, blocked |-> r.blocked,
                         noop |-> ~ Advancing(pid, t)]
             /\ constRun' = IF ~ accepted THEN constRun
                            ELSE IF constRun > 0 /\ err = pid.err_prev
                                 THEN constRun + 1 ELSE 1
             /\ recent' = IF ~ accepted THEN recent
                          ELSE IF Len(recent) < pid.kS THEN Append(recent, err)
                          ELSE Append(Tail(recent), err)
    /\ UNCHANGED nodeVars

NextPID == PidControl

SpecPID == InitPID /\ [][NextPID]_vars

(***************************************************************************)
(* Properties.                                                             *)
(***************************************************************************)
Tiers == {"collision", "caution", "clear"}

\* A step that is a timer callback reaching the control logic (lines 120-145).
PolicyTick ==
    /\ pc = "idle"
    /\ pc' # "scan_clamp"
    /\ data_available
    /\ DelayElapsed(clock')

\* C1: a call control(err, t) with t not greater than the previous timestamp
\* returns no output and leaves every field of the controller unchanged.
C1_NoOpLeavesState ==
    [][ RLe(call'.t, pid.t_prev)
          => /\ ~ call'.u.some
             /\ ~ call'.blocked
             /\ pid' = pid ]_vars

\* C1 witness: a no-op call made on a controller that has accepted calls.
C1_Witness ==
    /\ call.n = 2
    /\ ~ call.u.some
    /\ RLe(call.t, pid.t_prev)
    /\ Len(pid.err_hist) >= 2

\* C2: a cycle in which a PID call is a no-op does not fail; it emits, for that
\* channel, the value emitted in the previous cycle, and the loop goes on
\* (stated for cycles that follow an emitted command).
C2_NoOpCarriesForward ==
    LET angNoOp == cycle.kind \in Tiers /\ ~ cycle.ANG_VEL.some
        linNoOp == cycle.kind = "caution" /\ ~ cycle.LIN_VEL.some
        n       == Len(sink)
    IN  (n >= 1 /\ (angNoOp \/ linNoOp))
          => /\ ~ cycle.raised
             /\ pc # "crashed"
             /\ cycle.published
             /\ (n >= 2 /\ angNoOp) => sink[n].angular_z = sink[n - 1].angular_z
             /\ (n >= 2 /\ linNoOp) => sink[n].linear_x = sink[n - 1].linear_x

\* C3: with window size 10, after more than 10 successive accepted calls fed
\* the same error e the integral sum is exactly 10*e, and never above 10*|e|.
C3_WindowSum ==
    (pid.kS = 10 /\ constRun > 10)
      => /\ pid.err_int = RMul(Q(10, 1), pid.err_prev)
         /\ RLe(RAbs(pid.err_int), RMul(Q(10, 1), RAbs(pid.err_prev)))

\* C4: the tier is collision iff an oblique clearance is below 0.5; otherwise
\* caution iff an oblique clearance is in [0.5, 1.0); otherwise clear.
C4_TierByThresholds ==
    LET ol == cycle.snap.oblique_left
        or == cycle.snap.oblique_right
        half == Q(5, 10)
        one  == Q(1, 1)
        claimed ==
            IF RLt(ol, half) \/ RLt(or, half) THEN "collision"
            ELSE IF \/ RGe(ol, half) /\ RLt(ol, one)
                    \/ RGe(or, half) /\ RLt(or, one)
            THEN "caution"
            ELSE "clear"
    IN  cycle.kind \in Tiers => cycle.kind = claimed

\* C5: a cycle whose snapshot has an oblique clearance below 0.5 takes the
\* collision tier: linear velocity 0.005 before and after clamping, the
\* longitudinal PID not called, the lateral PID called once with error
\* 16*(left - right) and the cycle timestamp.
C5_CollisionTier ==
    [][ ( /\ PolicyTick
          /\ \/ RLt(cycle'.snap.oblique_left, Q(5, 10))
             \/ RLt(cycle'.snap.oblique_right, Q(5, 10)) )
          => /\ cycle'.kind = "collision"
             /\ cycle'.LIN_VEL = Some(Q(5, 1000))
             /\ ctrl_msg'.linear_x = Q(5, 1000)
             /\ cycle'.published => sink'[Len(sink')].linear_x = Q(5, 1000)
             /\ pid_lon' = pid_lon
             /\ cycle'.lon_err = None
             /\ cycle'.lat_err =
                  Some(RMul(Q(16, 1), SSub(cycle'.snap.left, cycle'.snap.right)))
             /\ pid_lat' = Control(pid_lat, cycle'.lat_err.val, Double,
                                    cycle'.tstamp).pid
             /\ cycle'.ANG_VEL = Control(pid_lat, cycle'.lat_err.val, Double,
                                         cycle'.tstamp).u
      ]_vars

\* C5 witness: a published collision-tier cycle with left - right = -2 m, so
\* lateral error -32, after the longitudinal controller has been used.
C5_Witness ==
    /\ cycle.kind = "collision"
    /\ cycle.published
    /\ cycle.lat_err = Some(Q(-32, 1))
    /\ ctrl_msg.linear_x = Q(5, 1000)
    /\ pid_lon # LonPID

\* C6: when every raw sample of the received scan of 360 samples is at or above
\* 3.5, the cycle takes the clear tier with linear velocity 0.2 before and
\* after clamping.
C6_FarScanIsClear ==
    [][ ( /\ PolicyTick
          /\ Len(ranges) = ScanLen
          /\ \A i \in 1..Len(ranges) : ranges[i] >= MaxRangeDm )
          => /\ cycle'.kind = "clear"
             /\ cycle'.LIN_VEL = Some(Q(2, 10))
             /\ ctrl_msg'.linear_x = Q(2, 10)
             /\ cycle'.published => sink'[Len(sink')].linear_x = Q(2, 10)
      ]_vars

\* C6 witness: a published clear cycle on a scan with samples above 3.5 m.
C6_Witness ==
    /\ pc = "idle"
    /\ Len(ranges) = ScanLen
    /\ \A i \in 1..Len(ranges) : ranges[i] >= MaxRangeDm
    /\ \E i \in 1..Len(ranges) : ranges[i] > MaxRangeDm
    /\ cycle.scan = laserscan.val
    /\ cycle.kind = "clear"
    /\ cycle.published
    /\ sink[Len(sink)].linear_x = Q(2, 10)

\* C7: the emitted command is (min(raw linear, 0.22), min(raw angular, 2.84)):
\* above the cap it is the cap, at or below the cap (negative included) it is
\* the raw value; so every emitted command is within the caps.
C7_OneSidedClamp ==
    /\ (cycle.kind \in Tiers /\ cycle.LIN_VEL.some /\ cycle.ANG_VEL.some)
         => /\ cycle.published
            /\ Len(sink) >= 1
            /\ LET out == sink[Len(sink)]
                   lin == cycle.LIN_VEL.val
                   ang == cycle.ANG_VEL.val
               IN  /\ RGt(lin, Q(22, 100)) => out.linear_x = Q(22, 100)
                   /\ RLe(lin, Q(22, 100)) => out.linear_x = lin
                   /\ RGt(ang, Q(284, 100)) => out.angular_z = Q(284, 100)
                   /\ RLe(ang, Q(284, 100)) => out.angular_z = ang
    /\ \A k \in 1..Len(sink) :
         /\ RLe(sink[k].linear_x, Q(22, 100))
         /\ RLe(sink[k].angular_z, Q(284, 100))

\* C7 witness: an emitted command whose raw linear velocity was above the cap
\* and whose raw angular velocity was negative; and an earlier emitted command
\* whose raw angular velocity was above the cap.
C7_Witness ==
    /\ cycle.published
    /\ RGt(cycle.LIN_VEL.val, Q(22, 100))
    /\ RLt(cycle.ANG_VEL.val, Zero)
    /\ sink[Len(sink)].linear_x = Q(22, 100)
    /\ sink[Len(sink)].angular_z = cycle.ANG_VEL.val
    /\ \E k \in 1..Len(sink) : sink[k].angular_z = Q(284, 100)

\* C8: while the elapsed time is not greater than the startup delay no command
\* is emitted and no PID state is mutated, scan or no scan; the ticks report
\* "initializing".
C8_StartupDelay ==
    clock <= DELAY
      => /\ sink = <<>>
         /\ pid_lat = LatPID
         /\ pid_lon = LonPID
         /\ ctrl_msg = [linear_x |-> Zero, angular_z |-> Zero]
         /\ cycle.kind \in {"none", "initializing"}
         /\ cycle.kind = "initializing" => cycle.report = "Initializing..."

\* C8 witness: a tick exactly at the end of the delay, with a scan received.
C8_Witness ==
    /\ clock = DELAY
    /\ data_available
    /\ pc = "idle"
    /\ cycle.kind = "initializing"

\* C9: a tick that runs before the first scan has arrived, inside or after the
\* startup delay, does not execute the policy and reports "initializing"; the
\* buffer is not read while unset; the flag, once true, stays true.
C9_NoDataReportsInitializing ==
    [][ /\ (pc = "idle" /\ pc' # "scan_clamp" /\ ~ data_available)
           => /\ cycle'.report = "Initializing..."
              /\ cycle'.kind \notin Tiers
              /\ sink' = sink
              /\ pid_lat' = pid_lat
              /\ pid_lon' = pid_lon
        /\ (cycle'.kind \in Tiers => laserscan.some)
        /\ (data_available => data_available') ]_vars

\* The delivered scans, each fully range-clamped.
ClampedScans == {ClampScan(raw) : raw \in RawScans}

\* C10: the sector means of a cycle are computed from one single delivered
\* scan, fully range-clamped.
C10_NoTornScan ==
    cycle.kind \in Tiers
      => /\ \A i \in 1..Len(cycle.scan) : cycle.scan[i] <= MaxRangeDm
         /\ cycle.scan \in ClampedScans
         /\ cycle.snap = Clearances(cycle.scan)

\* C10 witness: after an earlier cycle, a cycle ran on the clamped form of the
\* last delivered scan, which differs from the scan as delivered.
C10_Witness ==
    /\ pc = "idle"
    /\ cycle.kind \in Tiers
    /\ cycle.published
    /\ Len(sink) >= 2
    /\ cycle.scan = ClampScan(ranges)
    /\ cycle.scan # ranges

\* C11: a tick after the startup delay with a scan received emits exactly one
\* command, every other tick emits none, and a tick ends before the next one
\* starts (the executor is idle again), so commands come one per tick, in
\* tick order.
C11_OneCommandPerTick ==
    [][ (pc = "idle" /\ pc' # "scan_clamp")
          => /\ (data_available /\ DelayElapsed(clock'))
                  => /\ sink' = Append(sink, ctrl_msg')
                     /\ pc' = "idle"
             /\ ~ (data_available /\ DelayElapsed(clock'))
                  => sink' = sink ]_vars

\* C12: a scan whose length differs from 360 is rejected before any velocity
\* arithmetic: the tick computes no sector means, calls no PID controller,
\* emits no command, and the loop goes on.
C12_WrongLengthRejected ==
    [][ (PolicyTick /\ Len(laserscan.val) # ScanLen)
          => /\ cycle'.kind \notin Tiers
             /\ pid_lat' = pid_lat
             /\ pid_lon' = pid_lon
             /\ ctrl_msg' = ctrl_msg
             /\ sink' = sink
             /\ pc' = "idle" ]_vars

\* C13: every sample a control cycle reads lies in [0, 3.5] m whatever the
\* raw scan was: values above 3.5 m are replaced by 3.5 m and no negative raw
\* value is used as it came.
C13_SamplesWithinRange ==
    cycle.kind \in Tiers
        => \A i \in 1..Len(cycle.scan) :
               0 <= cycle.scan[i] /\ cycle.scan[i] <= MaxRangeDm

\* The k-th tick (k = 0, 1, 2) of scenario A: the delay has elapsed, the scan
\* received reads 3.5 m everywhere, the controllers are fresh before the
\* first tick, every earlier tick of the scenario emitted its command, and
\* the tick's timestamp is k/10 s.
ScenarioATick(k) ==
    /\ PolicyTick
    /\ laserscan.val = UniformScan(MaxRangeDm)
    /\ cycle'.tstamp = Q(k, 10)
    /\ Len(sink) = k
    /\ k = 0 => pid_lat = LatPID /\ pid_lon = LonPID
    /\ k > 0 => /\ cycle.scan = UniformScan(MaxRangeDm)
                /\ cycle.tstamp = Q(k - 1, 10)
                /\ cycle.published

\* C14: in scenario A (fresh PID controllers, a scan of 3.5 m everywhere,
\* ticks at t = 0, 0.1 and 0.2 with the start-up delay out of the way) every
\* tick selects the Clear tier, none fails and each emits the command
\* (0.2, 0).
C14_ScenarioA ==
    [][ \A k \in 0..2 :
          ScenarioATick(k)
            => /\ cycle'.kind = "clear"
               /\ ~ cycle'.raised
               /\ pc' = "idle"
               /\ sink' = Append(sink, [linear_x |-> Q(2, 10), angular_z |-> Zero]) ]_vars

\* C15: on a scan of 360 samples all equal to v, 0 <= v < 3.5 m, the means
\* oblique_left, oblique_right, left and right all equal v and front equals
\* 1.5 v.
C15_UniformScanSectors ==
    \A v \in 0..(MaxRangeDm - 1) :
        (cycle.kind \in Tiers /\ cycle.scan = UniformScan(v))
            => cycle.snap = [front         |-> RMul(Q(3, 2), Metres(v)),
                             oblique_left  |-> Metres(v),
                             oblique_right |-> Metres(v),
                             left          |-> Metres(v),
                             right         |-> Metres(v)]

\* C16: the first call of control on a freshly constructed controller is a
\* no-op whatever its timestamp: it returns no output and leaves the
\* controller as constructed.
C16_FirstCallNoOp ==
    call.n = 1
        => /\ ~ call.u.some
           /\ pid \in PidConfigs

\* Sum of a sequence of errors.
RECURSIVE SumErrs(_)
SumErrs(errs) == IF errs = <<>> THEN Zero ELSE RAdd(Head(errs), SumErrs(Tail(errs)))

\* C17: after any sequence of calls of control, the integral sum is the sum
\* of the errors in the FIFO, the FIFO holds at most kS errors, and these are
\* the most recent accepted errors in arrival order.
C17_IntegralIsFifoSum ==
    /\ pid.err_int = SumErrs(pid.err_hist)
    /\ Len(pid.err_hist) <= pid.kS
    /\ Len(pid.err_hist) <= Len(recent)
    /\ pid.err_hist = SubSeq(recent, Len(recent) - Len(pid.err_hist) + 1, Len(recent))

\* C19: control always returns without blocking: for kS >= 1 the FIFO is
\* never full when a call starts, it holds at most kS - 1 errors between
\* calls.
C19_NeverBlocks ==
    /\ ~ call.blocked
    /\ pid.kS >= 1 => Len(pid.err_hist) <= pid.kS - 1
    /\ ~ QueueFull(pid.err_hist, pid.kS)

C19_Witness ==
    /\ pid.kS = LatPID.kS
    /\ Len(pid.err_hist) = pid.kS - 1
    /\ Len(recent) = pid.kS
    /\ call.u.some

\* C18: the two PID channels never affect each other.  In every control
\* cycle the lateral controller is called exactly once, with the cycle's
\* timestamp, and becomes what that call makes of it; a Collision or a Clear
\* cycle leaves the longitudinal controller as it was, and a Caution cycle
\* changes it by its own call only.
C18_ChannelsIndependent ==
    [][ PolicyTick
          => /\ cycle'.kind \in Tiers
             /\ cycle'.lat_err.some
             /\ pid_lat' = Control(pid_lat, cycle'.lat_err.val,
                                    LatWidth(cycle'.kind), cycle'.tstamp).pid
             /\ cycle'.kind \in {"collision", "clear"} => pid_lon' = pid_lon
             /\ cycle'.kind = "caution"
                  => pid_lon' = Control(pid_lon, cycle'.snap.front, Double,
                                        cycle'.tstamp).pid ]_vars

C18_Witness ==
    /\ cycle.kind = "clear"
    /\ cycle.published
    /\ pid_lat.t_prev = cycle.tstamp
    /\ pid_lon # LonPID
    /\ pid_lon.t_prev # pid_lat.t_prev
    /\ Len(pid_lon.err_hist) < Len(pid_lat.err_hist)

\* C20: at the end of every completed control cycle the longitudinal
\* controller's previous timestamp is not later than the lateral one's, so in
\* a Caution cycle the longitudinal controller produces an output whenever
\* the lateral one does.
C20_LonStampNotAfterLat ==
    /\ (cycle.kind \in Tiers /\ cycle.published)
          => RLe(pid_lon.t_prev, pid_lat.t_prev)
    /\ (cycle.kind = "caution" /\ cycle.ANG_VEL.some) => cycle.LIN_VEL.some

C20_Witness ==
    /\ cycle.kind = "caution"
    /\ cycle.published
    /\ cycle.ANG_VEL.some /\ cycle.LIN_VEL.some
    /\ pid_lon.t_prev = cycle.tstamp
    /\ pid_lat.t_prev = cycle.tstamp
    /\ Len(pid_lon.err_hist) = 1
    /\ Len(pid_lat.err_hist) = 2

====
